---- MODULE Spec2Model ----
(***************************************************************************)
(* Model of the blockchain service (package services) of                   *)
(* brucetieu/blockchain: CreateBlockchain, AddToBlockChain, GetBlockchain  *)
(* and GetGenesisBlock, run by concurrent callers against one key-value    *)
(* repository.  Every call is cut into steps at its repository accesses.   *)
(***************************************************************************)
EXTENDS Integers, Sequences, FiniteSets, TLC

\* ------------------------------------------------------------------ bounds
MaxBlocks == 3      \* blocks that may be built in one behaviour
MaxTime == 2        \* largest value of the clock

Procs == {"c1", "c2"}           \* concurrent callers (HTTP requests)
Addrs == {"alice"}              \* the `to` given to CreateBlockchain
\* the (from, to, amount) given to AddToBlockChain
Transfers == {[from |-> "alice", to |-> "bob", amount |-> 10]}

\* ------------------------------------------------------------------ values
NoErr == "nil"
ErrGenesisNotFound == "no genesis block exists, please create a blockchain first"
ErrNotInitialized == "error getting last block. Blockchain probably has not been created"
ErrStorage == "storage error"
ErrTxn == "transaction construction failed"

NoKey == <<>>                   \* the "lastBlock" key holds nothing

\* &reps.Block{}: every field at its zero value
EmptyBlock == [Hash |-> <<>>, PrevHash |-> <<>>, Timestamp |-> 0, Transactions |-> <<>>]

EmptyTxn == [ID |-> <<>>, From |-> "", To |-> "", Amount |-> 0]

\* ------------------------------------------------------------------ codec
\* blockAssembler.ToBlockBytes: the block's fields, written in order
ToBlockBytes(b) == <<b.Hash, b.PrevHash, b.Timestamp, b.Transactions>>

\* blockAssembler.ToBlockStructure: the fields read back
ToBlockStructure(bytes) ==
    [Hash |-> bytes[1], PrevHash |-> bytes[2], Timestamp |-> bytes[3], Transactions |-> bytes[4]]

\* txnAssembler.ToTxnBytes
ToTxnBytes(t) == <<t.ID, t.From, t.To, t.Amount>>

\* ------------------------------------------------------------------ factories
\* transactionService.CreateCoinbaseTxn(to, data): no sender
CreateCoinbaseTxn(id, to) == [ID |-> <<"t", id>>, From |-> "", To |-> to, Amount |-> 0]

\* transactionService.CreateTransaction(from, to, amount), when it succeeds
CreateTransaction(id, from, to, amount) ==
    [ID |-> <<"t", id>>, From |-> from, To |-> to, Amount |-> amount]

\* blockService.CreateBlock(txns, prevHash): a fresh hash, the time of the build
CreateBlock(id, now, txns, prevHash) ==
    [Hash |-> <<id>>, PrevHash |-> prevHash, Timestamp |-> now, Transactions |-> txns]

\* ------------------------------------------------------------------ state
VARIABLES
    blockStore,     \* repository: the set of <key, value> entries holding blocks
    lastBlock,      \* repository: the hash under the "lastBlock" key, or NoKey
    txnStore,       \* repository: the set of <key, value> entries holding transactions
    clock,          \* the time the block factory reads
    nextId,         \* the next unused hash / transaction id
    pc,             \* each caller's position in its call
    local,          \* each caller's local variables
    ret,            \* what the call that just returned gave its handler, or NoRet
    storeFails,     \* whether the repository may fail in this behaviour
    appendOrder,    \* history: the hashes of the persisted blocks, in the order written
    nAddOk          \* history: the AddToBlockChain calls that returned a nil error

vars == <<blockStore, lastBlock, txnStore, clock, nextId, pc, local, ret, storeFails,
          appendOrder, nAddOk>>

IdleLocal ==
    [newBlock |-> EmptyBlock, newTxn |-> EmptyTxn, startLast |-> NoKey, lookupErr |-> NoErr]

NoRet == [op |-> "none", block |-> <<>>, exists |-> FALSE, err |-> NoErr, blocks |-> <<>>]

\* ------------------------------------------------------------------ helpers
\* every ordering of the finite set S, as a sequence without repetition
RECURSIVE Perms(_)
Perms(S) ==
    IF S = {} THEN {<<>>}
    ELSE UNION {{<<x>> \o s : s \in Perms(S \ {x})} : x \in S}

\* the persisted blocks, decoded
Blocks == {ToBlockStructure(kv.value) : kv \in blockStore}

GenesisBlocks == {b \in Blocks : Len(b.PrevHash) = 0}

\* ------------------------------------------------------------------ repository
\* the outcomes of one repository write: it succeeds, or fails if the repository may
Outcomes == IF storeFails THEN {TRUE, FALSE} ELSE {TRUE}

\* blockchainRepo.CreateBlock(key, value): one write that stores the block under its
\* hash and moves the "lastBlock" key to it; a failed write changes nothing
RepoCreateBlock(store, last, key, value, ok) ==
    IF ok
    THEN [store |-> {kv \in store : kv.key # key} \cup {[key |-> key, value |-> value]},
          last |-> key, out |-> <<value>>, err |-> NoErr]
    ELSE [store |-> store, last |-> last, out |-> <<>>, err |-> ErrStorage]

\* blockchainRepo.CreateTransaction(key, value)
RepoCreateTransaction(store, key, value, ok) ==
    IF ok
    THEN [store |-> {kv \in store : kv.key # key} \cup {[key |-> key, value |-> value]},
          err |-> NoErr]
    ELSE [store |-> store, err |-> ErrStorage]

\* blockchainRepo.GetBlock(): the bytes of the block the "lastBlock" key designates
RepoGetBlock(store, last) ==
    IF last = NoKey \/ ~ \E kv \in store : kv.key = last
    THEN [out |-> <<>>, err |-> ErrNotInitialized]
    ELSE [out |-> <<(CHOOSE kv \in store : kv.key = last).value>>, err |-> NoErr]

\* blockchainRepo.GetBlockchain(): every stored block in the order the store yields
\* them, or a storage error
RepoGetBlockchain(store) ==
    {[blocks |-> o, err |-> NoErr] : o \in Perms({kv.value : kv \in store})}
        \cup (IF storeFails THEN {[blocks |-> <<>>, err |-> ErrStorage]} ELSE {})

\* ------------------------------------------------------------------ service, pure parts
\* GetGenesisBlock, given what blockchainRepo.GetBlockchain returned: the first block
\* of the enumeration with an empty PrevHash
FirstGenesis(blocks) ==
    IF \E i \in 1..Len(blocks) : Len(ToBlockStructure(blocks[i]).PrevHash) = 0
    THEN ToBlockStructure(blocks[CHOOSE i \in 1..Len(blocks) :
            /\ Len(ToBlockStructure(blocks[i]).PrevHash) = 0
            /\ \A j \in 1..(i - 1) : Len(ToBlockStructure(blocks[j]).PrevHash) # 0])
    ELSE EmptyBlock

\* GetGenesisBlock with the scan testing Hash instead of PrevHash: no persisted block has
\* an empty Hash, so the scan finds nothing
GetGenesisBlock_TestsHash(r) ==
    IF r.err # NoErr
    THEN [block |-> EmptyBlock, err |-> r.err]
    ELSE [block |-> EmptyBlock, err |-> ErrGenesisNotFound]

\* GetGenesisBlock without the final test of lines 147-149: the empty block comes back
\* with a nil error when the scan found nothing
GetGenesisBlock_NoNotFound(r) ==
    IF r.err # NoErr
    THEN [block |-> EmptyBlock, err |-> r.err]
    ELSE [block |-> FirstGenesis(r.blocks), err |-> NoErr]

GetGenesisBlock(r) ==
    IF r.err # NoErr
    THEN [block |-> EmptyBlock, err |-> r.err]
    ELSE LET genesis == FirstGenesis(r.blocks) IN
         IF Len(genesis.Hash) = 0 /\ Len(genesis.PrevHash) = 0
         THEN [block |-> genesis, err |-> ErrGenesisNotFound]
         ELSE [block |-> genesis, err |-> NoErr]

\* Less with the comparison turned round: oldest first
Less_Ascending(s, i, j) == s[i].Timestamp < s[j].Timestamp

\* the less function GetBlockchain gives to sort.Slice
Less(s, i, j) == s[i].Timestamp > s[j].Timestamp

Swap(s, i, j) == [s EXCEPT ![i] = s[j], ![j] = s[i]]

\* sort.Slice on a slice of fewer than 12 elements is an insertion sort
RECURSIVE SinkDown(_, _)
SinkDown(s, j) ==
    IF j > 1 /\ Less(s, j, j - 1) THEN SinkDown(Swap(s, j, j - 1), j - 1) ELSE s

RECURSIVE InsertionSort(_, _)
InsertionSort(s, i) ==
    IF i > Len(s) THEN s ELSE InsertionSort(SinkDown(s, i), i + 1)

\* SortSlice with the outer loop starting one element late
SortSlice_StartsLate(s) == InsertionSort(s, 3)

SortSlice(s) == InsertionSort(s, 2)

\* GetBlockchain with the decoding loop starting at the second block
GetBlockchain_SkipsFirst(r) ==
    IF r.err # NoErr
    THEN [blocks |-> <<>>, err |-> r.err]
    ELSE [blocks |-> SortSlice([i \in 1..(Len(r.blocks) - 1) |->
                                    ToBlockStructure(r.blocks[i + 1])]),
          err |-> NoErr]

\* GetBlockchain, given what blockchainRepo.GetBlockchain returned
GetBlockchain(r) ==
    IF r.err # NoErr
    THEN [blocks |-> <<>>, err |-> r.err]
    ELSE [blocks |-> SortSlice([i \in 1..Len(r.blocks) |-> ToBlockStructure(r.blocks[i])]),
          err |-> NoErr]

\* ------------------------------------------------------------------ handlers
\* BlockchainHandler.CreateBlockchain: the status of the response
CreateBlockchainStatus(r) ==
    IF r.err # NoErr THEN 404 ELSE IF r.exists THEN 200 ELSE 201

\* BlockchainHandler.AddToBlockchain
AddToBlockchainStatus(r) == IF r.err # NoErr THEN 404 ELSE 201

\* BlockchainHandler.GetBlockchain
GetBlockchainStatus(r) == IF r.err # NoErr THEN 500 ELSE 200

\* ------------------------------------------------------------------ initial state
Init ==
    /\ blockStore = {}
    /\ lastBlock = NoKey
    /\ txnStore = {}
    /\ clock = 0
    /\ nextId = 1
    /\ pc = [p \in Procs |-> "idle"]
    /\ local = [p \in Procs |-> IdleLocal]
    /\ ret = NoRet
    /\ storeFails \in BOOLEAN
    /\ appendOrder = <<>>
    /\ nAddOk = 0

\* the values a call returns to its handler
Return(op, block, exists, err, blocks) ==
    [op |-> op, block |-> block, exists |-> exists, err |-> err, blocks |-> blocks]

\* lines 46-47: the genesis block CreateBlockchain builds
GenesisNewBlock(id, now, to) ==
    CreateBlock(id, now, <<CreateCoinbaseTxn(id, to)>>, <<>>)

\* CreateBlockchainFound leaving doesExist at its initial false
CreateBlockchainFound_NeverExists(genesisBlock) ==
    Return("CreateBlockchain", <<genesisBlock>>, FALSE, NoErr, <<>>)

\* lines 61-66: what CreateBlockchain returns when the lookup found a genesis
CreateBlockchainFound(genesisBlock) ==
    Return("CreateBlockchain", <<genesisBlock>>, Len(genesisBlock.PrevHash) = 0, NoErr, <<>>)

\* AddNotInitialized dropping the error: the empty block comes back with a nil error
AddNotInitialized_NilError ==
    Return("AddToBlockChain", <<EmptyBlock>>, FALSE, NoErr, <<>>)

\* lines 75-78: what AddToBlockChain returns when there is no last block
AddNotInitialized ==
    Return("AddToBlockChain", <<EmptyBlock>>, FALSE, ErrNotInitialized, <<>>)

\* AddNewBlock given the new transaction's id as previous hash
AddNewBlock_LinksTxnID(lastBlockBytes, id, now, newTxn) ==
    CreateBlock(id, now, <<newTxn>>, newTxn.ID)

\* AddNewBlock linking to the last block's PrevHash instead of its Hash
AddNewBlock_LinksPrevHash(lastBlockBytes, id, now, newTxn) ==
    CreateBlock(id, now, <<newTxn>>, ToBlockStructure(lastBlockBytes).PrevHash)

\* AddTxnRejected losing the factory's error
AddTxnRejected_NilError(err) ==
    Return("AddToBlockChain", <<EmptyBlock>>, FALSE, NoErr, <<>>)

\* lines 83-86: what AddToBlockChain returns when the transaction factory rejects
AddTxnRejected(err) ==
    Return("AddToBlockChain", <<EmptyBlock>>, FALSE, err, <<>>)

\* lines 80 and 88: the block AddToBlockChain builds on the last block read
AddNewBlock(lastBlockBytes, id, now, newTxn) ==
    CreateBlock(id, now, <<newTxn>>, ToBlockStructure(lastBlockBytes).Hash)

\* PersistBlock writing every block under one fixed key
PersistBlock_FixedKey(store, last, newBlock, ok) ==
    RepoCreateBlock(store, last, <<0>>, ToBlockBytes(newBlock), ok)

\* lines 52 and 91: blockchainRepo.CreateBlock(newBlock.Hash, ToBlockBytes(newBlock))
PersistBlock(store, last, newBlock, ok) ==
    RepoCreateBlock(store, last, newBlock.Hash, ToBlockBytes(newBlock), ok)

\* ------------------------------------------------------------------ CreateBlockchain
\* lines 39-48 and 61-66: the genesis lookup, then either the return of the genesis
\* found or the build of a new one
CreateBlockchain_Begin(p, to) ==
    /\ pc[p] = "idle"
    /\ ret = NoRet
    /\ \E g \in {GetGenesisBlock(r) : r \in RepoGetBlockchain(blockStore)} :
         IF g.err # NoErr
         THEN LET newBlock == GenesisNewBlock(nextId, clock, to)
                  coinbaseTxn == newBlock.Transactions[1]
              IN /\ nextId <= MaxBlocks
                 /\ nextId' = nextId + 1
                 /\ local' = [local EXCEPT ![p] =
                         [newBlock |-> newBlock, newTxn |-> coinbaseTxn,
                          startLast |-> lastBlock, lookupErr |-> g.err]]
                 /\ pc' = [pc EXCEPT ![p] = "cb_store"]
                 /\ UNCHANGED ret
         ELSE /\ ret' = CreateBlockchainFound(g.block)
              /\ UNCHANGED <<nextId, local, pc>>
    /\ UNCHANGED <<blockStore, lastBlock, txnStore, clock, storeFails, appendOrder, nAddOk>>

\* lines 48-58: the write of the new genesis and the return
CreateBlockchain_Store(p) ==
    /\ pc[p] = "cb_store"
    /\ ret = NoRet
    /\ \E ok \in Outcomes :
         LET newBlock == local[p].newBlock
             w == PersistBlock(blockStore, lastBlock, newBlock, ok)
         IN /\ blockStore' = w.store
            /\ lastBlock' = w.last
            /\ IF w.err # NoErr
               THEN /\ ret' = Return("CreateBlockchain", <<>>, FALSE, w.err, <<>>)
                    /\ UNCHANGED appendOrder
               ELSE /\ ret' = Return("CreateBlockchain", <<ToBlockStructure(w.out[1])>>,
                                     FALSE, NoErr, <<>>)
                    /\ appendOrder' = Append(appendOrder, newBlock.Hash)
    /\ pc' = [pc EXCEPT ![p] = "idle"]
    /\ local' = [local EXCEPT ![p] = IdleLocal]
    /\ UNCHANGED <<txnStore, clock, nextId, storeFails, nAddOk>>

\* ------------------------------------------------------------------ AddToBlockChain
\* lines 73-88: the read of the last block, the new transaction and the new block
AddToBlockChain_Begin(p, from, to, amount) ==
    /\ pc[p] = "idle"
    /\ ret = NoRet
    /\ LET lb == RepoGetBlock(blockStore, lastBlock) IN
       IF lb.err # NoErr
       THEN /\ ret' = AddNotInitialized
            /\ UNCHANGED <<nextId, local, pc>>
       ELSE \E txnOk \in BOOLEAN :
              IF ~ txnOk
              THEN /\ ret' = AddTxnRejected(ErrTxn)
                   /\ UNCHANGED <<nextId, local, pc>>
              ELSE LET newTxn == CreateTransaction(nextId, from, to, amount)
                       newBlock == AddNewBlock(lb.out[1], nextId, clock, newTxn)
                   IN /\ nextId <= MaxBlocks
                      /\ nextId' = nextId + 1
                      /\ local' = [local EXCEPT ![p] =
                              [newBlock |-> newBlock, newTxn |-> newTxn,
                               startLast |-> lastBlock, lookupErr |-> NoErr]]
                      /\ pc' = [pc EXCEPT ![p] = "add_block"]
                      /\ UNCHANGED ret
    /\ UNCHANGED <<blockStore, lastBlock, txnStore, clock, storeFails, appendOrder, nAddOk>>

\* AddToBlockChain_StoreBlock without the return of lines 92-95: a failed block write
\* is followed by the transaction write all the same
AddToBlockChain_StoreBlock_NoGate(p) ==
    /\ pc[p] = "add_block"
    /\ ret = NoRet
    /\ \E ok \in Outcomes :
         LET newBlock == local[p].newBlock
             w == PersistBlock(blockStore, lastBlock, newBlock, ok)
         IN /\ blockStore' = w.store
            /\ lastBlock' = w.last
            /\ appendOrder' = IF w.err # NoErr THEN appendOrder
                                ELSE Append(appendOrder, newBlock.Hash)
    /\ pc' = [pc EXCEPT ![p] = "add_txn"]
    /\ UNCHANGED <<txnStore, clock, nextId, storeFails, nAddOk, ret, local>>

\* lines 90-95: the write of the new block
AddToBlockChain_StoreBlock(p) ==
    /\ pc[p] = "add_block"
    /\ ret = NoRet
    /\ \E ok \in Outcomes :
         LET newBlock == local[p].newBlock
             w == PersistBlock(blockStore, lastBlock, newBlock, ok)
         IN /\ blockStore' = w.store
            /\ lastBlock' = w.last
            /\ IF w.err # NoErr
               THEN /\ ret' = Return("AddToBlockChain", <<EmptyBlock>>, FALSE, w.err, <<>>)
                    /\ pc' = [pc EXCEPT ![p] = "idle"]
                    /\ local' = [local EXCEPT ![p] = IdleLocal]
                    /\ UNCHANGED appendOrder
               ELSE /\ appendOrder' = Append(appendOrder, newBlock.Hash)
                    /\ pc' = [pc EXCEPT ![p] = "add_txn"]
                    /\ UNCHANGED <<ret, local>>
    /\ UNCHANGED <<txnStore, clock, nextId, storeFails, nAddOk>>

\* lines 97-103: the write of the transaction and the return
AddToBlockChain_StoreTxn(p) ==
    /\ pc[p] = "add_txn"
    /\ ret = NoRet
    /\ \E ok \in Outcomes :
         LET newTxn == local[p].newTxn
             w == RepoCreateTransaction(txnStore, newTxn.ID, ToTxnBytes(newTxn), ok)
         IN /\ txnStore' = w.store
            /\ IF w.err # NoErr
               THEN /\ ret' = Return("AddToBlockChain", <<EmptyBlock>>, FALSE, w.err, <<>>)
                    /\ UNCHANGED nAddOk
               ELSE /\ ret' = Return("AddToBlockChain", <<local[p].newBlock>>, FALSE,
                                     NoErr, <<>>)
                    /\ nAddOk' = nAddOk + 1
    /\ pc' = [pc EXCEPT ![p] = "idle"]
    /\ local' = [local EXCEPT ![p] = IdleLocal]
    /\ UNCHANGED <<blockStore, lastBlock, clock, nextId, storeFails, appendOrder>>

\* ------------------------------------------------------------------ the readers
\* lines 108-128; the call is a single step of caller p
GetBlockchain_Call(p) ==
    /\ pc[p] = "idle"
    /\ ret = NoRet
    /\ \E g \in {GetBlockchain(r) : r \in RepoGetBlockchain(blockStore)} :
         ret' = Return("GetBlockchain", <<>>, FALSE, g.err, g.blocks)
    /\ UNCHANGED <<blockStore, lastBlock, txnStore, clock, nextId, pc, local, storeFails,
                   appendOrder, nAddOk>>

\* lines 131-152; the call is a single step of caller p
GetGenesisBlock_Call(p) ==
    /\ pc[p] = "idle"
    /\ ret = NoRet
    /\ \E g \in {GetGenesisBlock(r) : r \in RepoGetBlockchain(blockStore)} :
         ret' = Return("GetGenesisBlock", <<g.block>>, FALSE, g.err, <<>>)
    /\ UNCHANGED <<blockStore, lastBlock, txnStore, clock, nextId, pc, local, storeFails,
                   appendOrder, nAddOk>>

\* ------------------------------------------------------------------ the handler's answer
\* the handler turns what the service returned into the response (c.JSON) and ends.
\* No step of the service reads ret, so taking this step before any other loses no
\* behaviour of the repository.
Respond ==
    /\ ret # NoRet
    /\ ret' = NoRet
    /\ UNCHANGED <<blockStore, lastBlock, txnStore, clock, nextId, pc, local, storeFails,
                   appendOrder, nAddOk>>

\* ------------------------------------------------------------------ the clock
Tick ==
    /\ clock < MaxTime
    /\ ret = NoRet
    /\ clock' = clock + 1
    /\ UNCHANGED <<blockStore, lastBlock, txnStore, nextId, pc, local, ret, storeFails,
                   appendOrder, nAddOk>>

\* ------------------------------------------------------------------ specifications
\* callers run concurrently: any caller may take its next step
Next ==
    \/ \E p \in Procs, to \in Addrs : CreateBlockchain_Begin(p, to)
    \/ \E p \in Procs : CreateBlockchain_Store(p)
    \/ \E p \in Procs, t \in Transfers : AddToBlockChain_Begin(p, t.from, t.to, t.amount)
    \/ \E p \in Procs : AddToBlockChain_StoreBlock(p)
    \/ \E p \in Procs : AddToBlockChain_StoreTxn(p)
    \/ \E p \in Procs : GetBlockchain_Call(p)
    \/ \E p \in Procs : GetGenesisBlock_Call(p)
    \/ Respond
    \/ Tick

Spec == Init /\ [][Next]_vars

\* callers run one call at a time: a caller steps only while every other is idle
OthersIdle(p) == \A q \in Procs \ {p} : pc[q] = "idle"

SeqNext ==
    \/ \E p \in Procs, to \in Addrs : OthersIdle(p) /\ CreateBlockchain_Begin(p, to)
    \/ \E p \in Procs : OthersIdle(p) /\ CreateBlockchain_Store(p)
    \/ \E p \in Procs, t \in Transfers :
            OthersIdle(p) /\ AddToBlockChain_Begin(p, t.from, t.to, t.amount)
    \/ \E p \in Procs : OthersIdle(p) /\ AddToBlockChain_StoreBlock(p)
    \/ \E p \in Procs : OthersIdle(p) /\ AddToBlockChain_StoreTxn(p)
    \/ \E p \in Procs : OthersIdle(p) /\ GetBlockchain_Call(p)
    \/ \E p \in Procs : OthersIdle(p) /\ GetGenesisBlock_Call(p)
    \/ Respond
    \/ Tick

SeqSpec == Init /\ [][SeqNext]_vars

\* ------------------------------------------------------------------ vocabulary of the claims
AllIdle == \A p \in Procs : pc[p] = "idle"

\* the persisted block with hash h
BlockOf(h) == CHOOSE b \in Blocks : b.Hash = h

\* the blocks were persisted with strictly increasing timestamps
StrictlyIncreasingTimestamps ==
    \A i, j \in 1..Len(appendOrder) :
        i < j => BlockOf(appendOrder[i]).Timestamp < BlockOf(appendOrder[j]).Timestamp

\* ------------------------------------------------------------------ C1
\* C1 (genesis uniqueness): with callers running one call at a time and a repository
\* that does not fail, at most one persisted block has an empty PrevHash, and a
\* CreateBlockchain call made while a genesis block is persisted returns that block
\* with a nil error and writes nothing.
C1_GenesisUnique ==
    /\ [](~ storeFails => Cardinality(GenesisBlocks) <= 1)
    /\ [][\A p \in Procs, to \in Addrs :
            (~ storeFails /\ GenesisBlocks # {} /\ CreateBlockchain_Begin(p, to))
                => /\ ret'.op = "CreateBlockchain"
                   /\ ret'.err = NoErr
                   /\ ret'.block \in {<<g>> : g \in GenesisBlocks}
                   /\ blockStore' = blockStore
                   /\ lastBlock' = lastBlock
                   /\ txnStore' = txnStore
                   /\ pc'[p] = "idle"]_vars

\* a second CreateBlockchain call has returned the genesis the first one persisted
C1_Witness ==
    /\ ~ storeFails
    /\ ret.op = "CreateBlockchain"
    /\ ret.exists
    /\ ret.block \in {<<g>> : g \in GenesisBlocks}
    /\ Cardinality(GenesisBlocks) = 1

\* ------------------------------------------------------------------ C2
\* C2 (chain linkage): every block AddToBlockChain persists has as PrevHash the hash
\* the "lastBlock" key held when that call started, which is the hash of a persisted
\* block.
C2_ChainLinkage ==
    [][\A p \in Procs :
            AddToBlockChain_StoreBlock(p)
                => \A b \in Blocks' \ Blocks :
                      /\ b = local[p].newBlock
                      /\ b.PrevHash = local[p].startLast
                      /\ local[p].startLast # NoKey
                      /\ \E prev \in Blocks : prev.Hash = b.PrevHash]_vars

\* an appended block is persisted whose PrevHash is the hash of the genesis block
C2_Witness ==
    \E b \in Blocks, g \in GenesisBlocks :
        /\ Len(b.PrevHash) # 0
        /\ b.PrevHash = g.Hash
        /\ lastBlock = b.Hash

\* ------------------------------------------------------------------ C3
\* C3 (monotonic append): with callers running one call at a time and a repository
\* that does not fail, once the chain is created and no call is under way the
\* number of persisted blocks is one more than the number of AddToBlockChain calls
\* that have returned a nil error.
C3_MonotonicAppend ==
    (~ storeFails /\ AllIdle /\ Blocks # {}) => Cardinality(Blocks) = nAddOk + 1

\* two appends have succeeded on a chain that had only its genesis block
C3_Witness ==
    /\ ~ storeFails
    /\ AllIdle
    /\ nAddOk = 2
    /\ Cardinality(Blocks) = 3
    /\ Cardinality(GenesisBlocks) = 1

\* ------------------------------------------------------------------ C4
\* C4 (uninitialized append fails): an AddToBlockChain call made while the "lastBlock"
\* key holds nothing returns the not-initialized error (answered 404) in its first
\* step and writes no block, no transaction and no last-block pointer.
C4_UninitializedAppendFails ==
    [][\A p \in Procs, t \in Transfers :
            (lastBlock = NoKey /\ AddToBlockChain_Begin(p, t.from, t.to, t.amount))
                => /\ ret'.op = "AddToBlockChain"
                   /\ ret'.err = ErrNotInitialized
                   /\ AddToBlockchainStatus(ret') = 404
                   /\ blockStore' = blockStore
                   /\ txnStore' = txnStore
                   /\ lastBlock' = lastBlock
                   /\ pc'[p] = "idle"]_vars

\* an append on the empty repository has returned the not-initialized error
C4_Witness ==
    /\ ret.op = "AddToBlockChain"
    /\ ret.err = ErrNotInitialized
    /\ blockStore = {}
    /\ txnStore = {}
    /\ lastBlock = NoKey
    /\ nextId = 1

\* ------------------------------------------------------------------ C5
\* C5 (genesis-last ordering): when the blocks were persisted with strictly increasing
\* timestamps, a GetBlockchain call that succeeds returns the block persisted first,
\* a genesis block, at the final position.
C5_GenesisLast ==
    (/\ ret.op = "GetBlockchain"
     /\ ret.err = NoErr
     /\ Blocks # {}
     /\ StrictlyIncreasingTimestamps)
        => /\ Len(ret.blocks) = Cardinality(Blocks)
           /\ ret.blocks[Len(ret.blocks)] = BlockOf(appendOrder[1])
           /\ Len(ret.blocks[Len(ret.blocks)].PrevHash) = 0

\* GetBlockchain has returned three blocks of strictly increasing timestamps
C5_Witness ==
    /\ ret.op = "GetBlockchain"
    /\ ret.err = NoErr
    /\ Len(ret.blocks) = 3
    /\ StrictlyIncreasingTimestamps
    /\ Cardinality(GenesisBlocks) = 1

\* ------------------------------------------------------------------ C6
\* C6 as stated: GetGenesisBlock fails with the genesis-not-found error exactly when no
\* persisted block has an empty PrevHash, and otherwise succeeds and returns a
\* persisted block with an empty PrevHash.
C6_AsStated ==
    ret.op = "GetGenesisBlock"
        => /\ (ret.err = ErrGenesisNotFound) <=> (GenesisBlocks = {})
           /\ GenesisBlocks # {}
                => (ret.err = NoErr /\ ret.block \in {<<g>> : g \in GenesisBlocks})

\* C6 as amended: when enumerate-blocks fails, GetGenesisBlock returns that storage
\* error; when it succeeds, GetGenesisBlock fails with the genesis-not-found error
\* exactly when no persisted block has an empty PrevHash, and otherwise succeeds and
\* returns a persisted block with an empty PrevHash.
C6_GenesisLookup ==
    ret.op = "GetGenesisBlock"
        => IF ret.err = ErrStorage
           THEN storeFails /\ ret.block = <<EmptyBlock>>
           ELSE /\ (ret.err = ErrGenesisNotFound) <=> (GenesisBlocks = {})
                /\ GenesisBlocks # {}
                     => (ret.err = NoErr /\ ret.block \in {<<g>> : g \in GenesisBlocks})

\* GetGenesisBlock has found the genesis among two persisted blocks
C6_Witness ==
    /\ ret.op = "GetGenesisBlock"
    /\ ret.err = NoErr
    /\ ret.block \in {<<g>> : g \in GenesisBlocks}
    /\ Cardinality(Blocks) = 2

\* ------------------------------------------------------------------ C7
\* a step in which a CreateBlockchain call returns
CreateReturns == ret = NoRet /\ ret'.op = "CreateBlockchain"

\* that call persisted a new genesis block in this step
CreatedGenesis == ret'.block \in {<<g>> : g \in GenesisBlocks' \ GenesisBlocks}

\* that call returned from its first step: its genesis lookup succeeded
LookupSucceeded == pc' = pc

\* C7 as stated: CreateBlockchain returns alreadyExisted = false exactly when the call
\* created and persisted the genesis block, and true whenever its lookup succeeded.
C7_AsStated ==
    [][CreateReturns
            => /\ (ret'.exists = FALSE) <=> CreatedGenesis
               /\ LookupSucceeded => ret'.exists
               /\ ~ (ret'.exists /\ CreatedGenesis)
               /\ ~ (LookupSucceeded /\ ~ ret'.exists /\ ret'.err = NoErr)]_vars

\* C7 as amended: CreateBlockchain returns alreadyExisted = false with a nil error
\* exactly when the call created and persisted a genesis block, true (with a nil
\* error) exactly when its lookup succeeded, and false with the error when its
\* store-block write failed.
C7_AlreadyExisted ==
    [][CreateReturns
            => /\ (ret'.exists = FALSE /\ ret'.err = NoErr) <=> CreatedGenesis
               /\ ret'.exists <=> LookupSucceeded
               /\ LookupSucceeded => ret'.err = NoErr
               /\ (ret'.err # NoErr)
                    <=> (~ LookupSucceeded /\ blockStore' = blockStore /\ ~ ret'.exists)]_vars

\* the first CreateBlockchain("alice") has returned the genesis it created, paying alice
C7_Witness ==
    /\ ret.op = "CreateBlockchain"
    /\ ~ ret.exists
    /\ ret.err = NoErr
    /\ ret.block \in {<<g>> : g \in GenesisBlocks}
    /\ Len(ret.block[1].Transactions) = 1
    /\ ret.block[1].Transactions[1].To = "alice"
    /\ ret.block[1].Transactions[1].From = ""

\* ------------------------------------------------------------------ C8
\* C8: when the store-block write of CreateBlockchain's genesis creation fails, the
\* call returns an error with alreadyExisted = false and changes nothing; no block
\* with an empty PrevHash is persisted and the last-block pointer is absent.
C8_FailedCreateLeavesNoGenesis ==
    [][\A p \in Procs :
            (CreateBlockchain_Store(p) /\ ret'.err # NoErr)
                => /\ ~ ret'.exists
                   /\ blockStore' = blockStore
                   /\ lastBlock' = lastBlock
                   /\ txnStore' = txnStore
                   /\ GenesisBlocks' = {}
                   /\ lastBlock' = NoKey]_vars

\* ------------------------------------------------------------------ C9
\* C9 (the block write gates the transaction write): when AddToBlockChain's store-block
\* write fails the call returns the storage error at once, neither the new block nor
\* its transaction is persisted, and the call is at its transaction write only with
\* its block persisted.
C9_BlockWriteGatesTxnWrite ==
    /\ [][\A p \in Procs :
            (AddToBlockChain_StoreBlock(p) /\ local[p].newBlock \notin Blocks')
                => /\ ret'.op = "AddToBlockChain"
                   /\ ret'.err = ErrStorage
                   /\ ret'.block = <<EmptyBlock>>
                   /\ pc'[p] = "idle"
                   /\ blockStore' = blockStore
                   /\ txnStore' = txnStore
                   /\ \A kv \in txnStore' : kv.key # local[p].newTxn.ID]_vars
    /\ [](\A p \in Procs : pc[p] = "add_txn" => local[p].newBlock \in Blocks)
    /\ [][txnStore' # txnStore
            => \E p \in Procs : pc[p] = "add_txn" /\ local[p].newBlock \in Blocks]_vars

\* an append on the genesis-only chain has failed at its block write: the block built
\* (hash 2) is not persisted and no transaction is stored
C9_Witness ==
    /\ ret.op = "AddToBlockChain"
    /\ ret.err = ErrStorage
    /\ AllIdle
    /\ nextId = 3
    /\ appendOrder = << <<1>> >>
    /\ Cardinality(Blocks) = 1
    /\ txnStore = {}

\* ------------------------------------------------------------------ C10
\* a step in which an AddToBlockChain call returns an error
AddErrorReturns == ret = NoRet /\ ret'.op = "AddToBlockChain" /\ ret'.err # NoErr

\* C10 as stated: whenever AddToBlockChain returns an error, the persisted blocks and
\* the last-block pointer are what they were before the call (callers running one
\* call at a time).
C10_AsStated ==
    [][AddErrorReturns
            => IF AllIdle
               THEN blockStore' = blockStore /\ lastBlock' = lastBlock
               ELSE \A p \in Procs :
                      pc[p] # "idle"
                        => /\ local[p].newBlock \notin Blocks'
                           /\ lastBlock' = local[p].startLast]_vars

\* C10 as amended: when AddToBlockChain returns an error because the last block is
\* missing, the transaction is rejected or the store-block write fails, the persisted
\* blocks and the last-block pointer are what they were before the call; when the
\* store-transaction write fails, the new block is persisted, the pointer designates
\* it and its transaction is not stored.
C10_ErrorFrame ==
    [][AddErrorReturns
            => IF AllIdle
               THEN /\ blockStore' = blockStore
                    /\ lastBlock' = lastBlock
                    /\ txnStore' = txnStore
               ELSE \A p \in Procs :
                      /\ pc[p] = "add_block"
                           => /\ local[p].newBlock \notin Blocks'
                              /\ lastBlock' = local[p].startLast
                              /\ txnStore' = txnStore
                      /\ pc[p] = "add_txn"
                           => /\ local[p].newBlock \in Blocks'
                              /\ Blocks' = Blocks
                              /\ lastBlock' = local[p].newBlock.Hash
                              /\ lastBlock' # local[p].startLast
                              /\ txnStore' = txnStore
                              /\ \A kv \in txnStore' : kv.key # local[p].newTxn.ID]_vars

\* an append has failed at its transaction write: its block is persisted and is the
\* last block, its transaction is not stored
C10_Witness ==
    /\ ret.op = "AddToBlockChain"
    /\ ret.err = ErrStorage
    /\ AllIdle
    /\ Cardinality(Blocks) = 2
    /\ Len(appendOrder) = 2
    /\ lastBlock = appendOrder[2]
    /\ txnStore = {}

\* ------------------------------------------------------------------ C11
\* C11: a storage error of enumerate-blocks during CreateBlockchain's genesis lookup
\* is returned to the caller and no block is persisted: the call whose lookup failed
\* with the storage error ends with an error and writes nothing.
C11_LookupFailureSurfaced ==
    [][\A p \in Procs :
            (CreateBlockchain_Store(p) /\ local[p].lookupErr = ErrStorage)
                => /\ ret'.err # NoErr
                   /\ blockStore' = blockStore
                   /\ lastBlock' = lastBlock]_vars

\* ------------------------------------------------------------------ C12
\* two distinct persisted blocks with the same non-empty PrevHash
Forks ==
    {pair \in Blocks \X Blocks :
        /\ pair[1].Hash # pair[2].Hash
        /\ pair[1].PrevHash = pair[2].PrevHash
        /\ Len(pair[1].PrevHash) # 0}

\* the blocks of a sequence
Range(seq) == {seq[i] : i \in 1..Len(seq)}

\* C12 (no mutual exclusion around AddToBlockChain): whatever forks the persisted
\* blocks hold, a GetBlockchain call whose enumeration succeeds returns a nil error
\* and both blocks of every fork; the sort neither detects nor repairs a fork.
C12_ForkNotDetected ==
    (ret.op = "GetBlockchain" /\ ret.err # ErrStorage)
        => /\ ret.err = NoErr
           /\ GetBlockchainStatus(ret) = 200
           /\ \A pair \in Forks : pair[1] \in Range(ret.blocks) /\ pair[2] \in Range(ret.blocks)

\* two appends that both read the genesis as last block have both persisted their
\* block, and GetBlockchain has returned the two blocks
C12_Witness ==
    /\ ~ storeFails
    /\ Forks # {}
    /\ Cardinality(GenesisBlocks) = 1
    /\ ret.op = "GetBlockchain"
    /\ ret.err = NoErr
    /\ Len(ret.blocks) = 3
    /\ \A pair \in Forks : pair[1] \in Range(ret.blocks) /\ pair[2] \in Range(ret.blocks)

\* ------------------------------------------------------------------ C13
\* C13: with callers interleaved and a repository that never fails, every state with
\* a persisted block has exactly one persisted block with an empty PrevHash.
C13_ExactlyOneGenesis ==
    (~ storeFails /\ Blocks # {}) => Cardinality(GenesisBlocks) = 1

\* ------------------------------------------------------------------ C14
\* C14 (no dangling previous hash): every persisted block with a non-empty PrevHash
\* has as PrevHash the hash of another persisted block.
C14_NoDanglingPrevHash ==
    \A b \in Blocks :
        Len(b.PrevHash) # 0
            => \E prev \in Blocks : prev.Hash = b.PrevHash /\ prev.Hash # b.Hash

\* the block write of one append (hash 2) failed and the next append (hash 3) is
\* persisted: its PrevHash designates the persisted genesis
C14_Witness ==
    /\ storeFails
    /\ Cardinality(Blocks) = 2
    /\ \E b \in Blocks, g \in GenesisBlocks :
          b.Hash = <<3>> /\ g.Hash = <<1>> /\ b.PrevHash = g.Hash

\* ------------------------------------------------------------------ C15
\* a step of an AddToBlockChain call
AddStep ==
    \E p \in Procs :
        \/ \E t \in Transfers : AddToBlockChain_Begin(p, t.from, t.to, t.amount)
        \/ AddToBlockChain_StoreBlock(p)
        \/ AddToBlockChain_StoreTxn(p)

\* a step of GetBlockchain or GetGenesisBlock
ReadStep == \E p \in Procs : GetBlockchain_Call(p) \/ GetGenesisBlock_Call(p)

C16_TxnRejected ==
    [][\A p \in Procs, t \in Transfers :
            (/\ AddToBlockChain_Begin(p, t.from, t.to, t.amount)
             /\ lastBlock # NoKey
             /\ pc'[p] = "idle")
                => /\ ret' = Return("AddToBlockChain", <<EmptyBlock>>, FALSE, ErrTxn, <<>>)
                   /\ nextId' = nextId
                   /\ local' = local
                   /\ blockStore' = blockStore
                   /\ txnStore' = txnStore
                   /\ lastBlock' = lastBlock]_vars

\* on the created chain an append has been rejected by the transaction factory
C16_Witness ==
    /\ ret.op = "AddToBlockChain"
    /\ ret.err = ErrTxn
    /\ Cardinality(Blocks) = 1
    /\ nextId = 2
    /\ txnStore = {}
    /\ lastBlock = appendOrder[1]

\* ------------------------------------------------------------------ C17
\* C17: a GetBlockchain call whose enumeration succeeds returns every persisted block
\* exactly once, in non-increasing order of timestamp.
C17_SortedPermutation ==
    (ret.op = "GetBlockchain" /\ ret.err = NoErr)
        => /\ Len(ret.blocks) = Cardinality(Blocks)
           /\ Range(ret.blocks) = Blocks
           /\ \A i, j \in 1..Len(ret.blocks) :
                 i < j => ret.blocks[i].Timestamp >= ret.blocks[j].Timestamp

\* GetBlockchain has returned three blocks, the newest with a later timestamp than
\* the oldest
C17_Witness ==
    /\ ret.op = "GetBlockchain"
    /\ ret.err = NoErr
    /\ Len(ret.blocks) = 3
    /\ Range(ret.blocks) = Blocks
    /\ ret.blocks[1].Timestamp > ret.blocks[3].Timestamp

\* ------------------------------------------------------------------ C18
\* the blocks were persisted with non-decreasing timestamps
NonDecreasingTimestamps ==
    \A i, j \in 1..Len(appendOrder) :
        i < j => BlockOf(appendOrder[i]).Timestamp <= BlockOf(appendOrder[j]).Timestamp

\* C18: on every chain persisted with non-decreasing timestamps, equal ones included,
\* a GetBlockchain call that succeeds returns a genesis block at the final position,
\* whatever the order of the enumeration.
C18_GenesisLastWithTies ==
    (/\ ret.op = "GetBlockchain"
     /\ ret.err = NoErr
     /\ Blocks # {}
     /\ NonDecreasingTimestamps)
        => Len(ret.blocks[Len(ret.blocks)].PrevHash) = 0

\* ------------------------------------------------------------------ C19
\* C19 (last-block pointer): the "lastBlock" key is empty exactly while no block is
\* persisted; otherwise it holds the hash of a persisted block, the one written last.
\* Every block write of CreateBlockchain and AddToBlockChain moves it to the block
\* written, and an AddToBlockChain builds its block on the block it designates.
C19_LastBlockPointer ==
    /\ []((lastBlock = NoKey) <=> (Blocks = {}))
    /\ [](lastBlock # NoKey
            => /\ \E b \in Blocks : b.Hash = lastBlock
               /\ lastBlock = appendOrder[Len(appendOrder)])
    /\ [][\A p \in Procs :
            ((CreateBlockchain_Store(p) \/ AddToBlockChain_StoreBlock(p))
                /\ blockStore' # blockStore)
                => /\ local[p].newBlock \in Blocks' \ Blocks
                   /\ lastBlock' = local[p].newBlock.Hash]_vars
    /\ [][\A p \in Procs, t \in Transfers :
            (AddToBlockChain_Begin(p, t.from, t.to, t.amount) /\ pc'[p] = "add_block")
                => local'[p].newBlock.PrevHash = lastBlock]_vars

\* after a creation and two appends made one after the other the pointer designates
\* the third block, which is built on the second
C19_Witness ==
    /\ AllIdle
    /\ Len(appendOrder) = 3
    /\ lastBlock = appendOrder[3]
    /\ BlockOf(appendOrder[3]).PrevHash = appendOrder[2]
    /\ BlockOf(appendOrder[2]).PrevHash = appendOrder[1]

\* ------------------------------------------------------------------ C20
\* the keys of the stored transactions
TxnKeys == {kv.key : kv \in txnStore}

\* C20 (transaction store): every transaction stored by id is the single transaction of
\* a persisted block with a non-empty PrevHash, and the coinbase transaction of a
\* genesis block is never stored by id.
C20_TxnStoreConsistency ==
    /\ \A kv \in txnStore :
          \E b \in Blocks :
              /\ Len(b.PrevHash) # 0
              /\ Len(b.Transactions) = 1
              /\ kv.key = b.Transactions[1].ID
              /\ kv.value = ToTxnBytes(b.Transactions[1])
    /\ \A g \in GenesisBlocks : g.Transactions[1].ID \notin TxnKeys

\* the converse fails: of two appended blocks one has its transaction stored, the
\* other, whose transaction write failed, stays persisted without it
C20_Witness ==
    /\ storeFails
    /\ AllIdle
    /\ ret.op = "AddToBlockChain"
    /\ ret.err = ErrStorage
    /\ Cardinality(Blocks) = 3
    /\ Cardinality(GenesisBlocks) = 1
    /\ Cardinality(txnStore) = 1
    /\ BlockOf(lastBlock).Transactions[1].ID \notin TxnKeys

====
